---------------------------- MODULE Spec2Model ----------------------------
(***************************************************************************)
(* Organization (team) store, membership store and invite store of         *)
(* TeamDBImpl (src/unnamed/part_001, lines 241-598), as a state machine.   *)
(*                                                                         *)
(* The tables are sequences of rows; a row's id (a uuidv4 in the code) is  *)
(* its position in the table.  Every public method is a call made by a     *)
(* caller; a call suspends at each awaited storage access, so a method is  *)
(* one action per storage access and calls of different callers            *)
(* interleave between them.  The synchronous prefix of a method (argument  *)
(* validation) has no effect another caller can see, so it is part of the  *)
(* action of the method's first storage access.  The body of an            *)
(* em.transaction(...) is one action: the backing store is required to run *)
(* transactions atomically.                                                *)
(*                                                                         *)
(* The OIDC client config store (same file, lines 17-210, Go) works on the *)
(* same database: a function is one action per statement it sends.         *)
(***************************************************************************)
EXTENDS Integers, Sequences, FiniteSets, TLC

VARIABLES
    teams,        \* d_b_team rows
    memberships,  \* d_b_team_membership rows
    invites,      \* d_b_team_membership_invite rows
    orgSettings,  \* d_b_org_settings rows
    pendingSaves, \* storage writes issued without await, not yet applied
    configs,      \* d_b_oidc_client_config rows, by id
    procs,        \* per caller: the call it is making or has last made
    calls,        \* number of calls started so far
    now           \* the clock read by new Date()

vars == <<teams, memberships, invites, orgSettings, pendingSaves, configs, procs, calls, now>>
tables == <<teams, memberships, invites, orgSettings, pendingSaves, configs>>

----------------------------------------------------------------------------
(* Bounds of the model *)

MaxSlugCalls == 4     \* calls per behaviour of SpecSlug
MaxMemberCalls == 5   \* calls per behaviour of SpecMember
MaxInviteCalls == 3   \* calls per behaviour of SpecInvite
MaxSeqCalls == 4      \* calls per behaviour of SpecSeq
MaxResets == 3        \* calls per behaviour of SpecInviteSeq
MaxTime == 3          \* last instant of the clock
MaxFormCalls == 3     \* calls per behaviour of SpecForm
MaxSsoCalls == 4      \* calls per behaviour of SpecSso
MaxDeleteCalls == 4   \* calls per behaviour of SpecDelete
MaxSettingsCalls == 4 \* calls per behaviour of SpecSettings

(* Callers that may have calls in flight at the same time *)
Callers == {1, 2}

(* Callers of the calls made one after another: call k is made by caller k *)
SeqCallers == 1..MaxSeqCalls
ResetCallers == 1..MaxResets

Users == {"U1", "U2"}
Roles == {"owner", "member"}

(* Display names offered to createTeam *)
Names == {"Acme", " acme ", "ab"}

(* Organizations whose invites are reset (no organization row is needed) *)
InviteTeams == {1, 2}

(* The values randomBytes(4).toString("hex") is drawn from *)
Suffixes == {"0000000a", "0000000b"}

(* Slugs offered to updateTeam; "" is "not supplied" *)
SlugInputs == {"acme", "acme-0000000a", "a_b", ""}

----------------------------------------------------------------------------
(* Constants of the program *)

MinNameLen == 3
MinSlugLen == 3
MaxCreateNameLen == 64
MaxUpdateNameLen == 32
MaxSlugLen == 63
EmptyTime == 0        \* invalidationTime === "": the invite is valid
NoId == 0             \* undefined: findOne found no row

----------------------------------------------------------------------------
(* Strings *)

(* String.prototype.trim on the names of the model *)
Trim(s) ==
    CASE s = " acme " -> "acme"
      [] OTHER -> s

(* slugify(name, { lower: true }) on the trimmed names of the model *)
Slugify(s) ==
    CASE s = "Acme" -> "acme"
      [] OTHER -> s

(* /^[A-Za-z0-9-]+$/.test(slug) on the slugs of the model *)
SlugPatternOk(s) == s # "" /\ s # "a_b"

----------------------------------------------------------------------------
(* Rows and queries *)

NoRow == [none |-> TRUE]

Ids(tbl) == DOMAIN tbl

(* teamRepo.findOne({ id, deleted: false, markedDeleted: false }) *)
FindTeamById(T, teamId) ==
    IF teamId \in Ids(T) /\ ~T[teamId].deleted /\ ~T[teamId].markedDeleted
    THEN teamId ELSE NoId

(* every row with that slug, soft-deleted or not (BySlug without its filter) *)
BySlugAny(T, slug) ==
    {i \in Ids(T) : T[i].slug = slug}

(* the slug is held by soft-deleted organizations only *)
HeldByDeletedOnly(T, slug) ==
    /\ BySlugAny(T, slug) # {}
    /\ \A i \in BySlugAny(T, slug) : T[i].markedDeleted

(* the rows matched by teamRepo.findOne({ slug, deleted: false, markedDeleted: false }) *)
BySlug(T, slug) ==
    {i \in Ids(T) : T[i].slug = slug /\ ~T[i].deleted /\ ~T[i].markedDeleted}

(* teamRepo.findOne(teamId): by primary key, no filter *)
FindTeamRaw(T, teamId) ==
    IF teamId \in Ids(T) THEN teamId ELSE NoId

(* the rows matched by membershipRepo.find({ teamId, userId, deleted: false }) *)
LiveMemberships(M, teamId, userId) ==
    {i \in Ids(M) : M[i].teamId = teamId /\ M[i].userId = userId /\ ~M[i].deleted}

(* membershipRepo.count({ teamId, role: "owner", deleted: false }) *)
OwnerCount(M, teamId) ==
    Cardinality({i \in Ids(M) : M[i].teamId = teamId /\ M[i].role = "owner" /\ ~M[i].deleted})

LiveOwners(M, teamId) ==
    {M[i].userId : i \in {j \in Ids(M) : M[j].teamId = teamId /\ M[j].role = "owner" /\ ~M[j].deleted}}

LiveMembers(M, teamId) ==
    {i \in Ids(M) : M[i].teamId = teamId /\ ~M[i].deleted}

----------------------------------------------------------------------------
(* Callers.  Of a call, a caller keeps the arguments, the position (pc),  *)
(* the row it read or returns (rowId, rowCopy), the result (res), and two *)
(* history fields no method reads: owners0, the live owners of the team   *)
(* when the call started, and pre, whether the tables met the condition   *)
(* of interest when the call started (addMemberToTeam: the organization   *)
(* is live and the user has no live membership; setTeamMemberRole: the    *)
(* user has no live membership; createTeam, updateTeam: the candidate     *)
(* slug is held by soft-deleted organizations only; setOrgSettings: the   *)
(* organization has a live settings row; resetGenericInvite: the          *)
(* organization has a valid generic invite).                              *)

Idle ==
    [op |-> "none", pc |-> "idle", userId |-> "", teamId |-> NoId, cfgId |-> "",
     role |-> "", name |-> "", slug |-> "", rowId |-> NoId, rowCopy |-> NoRow,
     res |-> "", owners0 |-> {}, pre |-> FALSE]

Ready(p) == procs[p].pc \in {"idle", "done"}

(* A call as it starts: its arguments *)
Call(op, userId, teamId, role, name, slug) ==
    [Idle EXCEPT !.op = op, !.userId = userId, !.teamId = teamId,
                 !.role = role, !.name = name, !.slug = slug]

(* The call returns or throws: res is the value or the error code *)
Finish(c, res) == [c EXCEPT !.pc = "done", !.res = res]

Init ==
    /\ teams = <<>>
    /\ memberships = <<>>
    /\ invites = <<>>
    /\ orgSettings = <<>>
    /\ pendingSaves = {}
    /\ configs = <<>>
    /\ procs = [p \in Callers |-> Idle]
    /\ calls = 0
    /\ now = 1

----------------------------------------------------------------------------
(* Organization store *)

(* createTeam, lines 398-439: validation, then the transaction that checks *)
(* the slug, appends the random suffix on a collision and inserts the team *)
CreateTeam(p, userId, name, sfx) ==
    /\ Ready(p)
    /\ calls' = calls + 1
    /\ LET c == Call("createTeam", userId, NoId, "", name, "")
           nm == Trim(name)
           slug0 == Slugify(nm)
       IN IF name = "" \/ Len(nm) < MinNameLen \/ Len(nm) > MaxCreateNameLen
             \/ Len(slug0) < MinSlugLen
          THEN /\ procs' = [procs EXCEPT ![p] = Finish(c, "BAD_REQUEST")]
               /\ UNCHANGED teams
          ELSE LET slug == IF BySlug(teams, slug0) # {} THEN slug0 \o "-" \o sfx ELSE slug0
                   row == [name |-> nm, slug |-> slug, creationTime |-> now,
                           markedDeleted |-> FALSE, deleted |-> FALSE]
               IN /\ teams' = Append(teams, row)
                  /\ procs' = [procs EXCEPT ![p] =
                        [c EXCEPT !.pc = "saveOwner", !.teamId = Len(teams) + 1,
                                  !.slug = slug, !.rowCopy = row,
                                  !.pre = HeldByDeletedOnly(teams, slug0)]]
    /\ UNCHANGED <<configs, memberships, invites, orgSettings, pendingSaves, now>>

(* createTeam, lines 441-449: the owner membership, saved after the transaction *)
CreateTeamSaveOwner(p) ==
    /\ procs[p].op = "createTeam" /\ procs[p].pc = "saveOwner"
    /\ memberships' = Append(memberships,
            [teamId |-> procs[p].teamId, userId |-> procs[p].userId, role |-> "owner",
             creationTime |-> procs[p].rowCopy.creationTime, deleted |-> FALSE])
    /\ procs' = [procs EXCEPT ![p] = Finish(procs[p], "ok")]
    /\ UNCHANGED <<configs, teams, invites, orgSettings, pendingSaves, calls, now>>

(* updateTeam, lines 349-396: validation and the whole transaction *)
UpdateTeam(p, teamId, nameArg, slugArg) ==
    /\ Ready(p)
    /\ calls' = calls + 1
    /\ LET name == Trim(nameArg)
           slug == Trim(slugArg)
           c == Call("updateTeam", "", teamId, "", nameArg, slugArg)
           id == FindTeamById(teams, teamId)
           slugChanges == slug # "" /\ teams[id].slug # slug
           res ==
             IF name = "" /\ slug = "" THEN "BAD_REQUEST"
             ELSE IF id = NoId THEN "NOT_FOUND"
             ELSE IF teams[id].name = name /\ teams[id].slug = slug THEN "ok"
             ELSE IF name # "" /\ Len(name) > MaxUpdateNameLen THEN "INVALID_VALUE"
             ELSE IF slugChanges /\ Len(slug) > MaxSlugLen THEN "INVALID_VALUE"
             ELSE IF slugChanges /\ ~SlugPatternOk(slug) THEN "BAD_REQUEST"
             ELSE IF slugChanges /\ BySlug(teams, slug) # {} THEN "INVALID_VALUE"
             ELSE "ok"
           saved == [teams[id] EXCEPT !.name = IF name # "" THEN name ELSE @,
                                      !.slug = IF slugChanges THEN slug ELSE @]
           pre == /\ id # NoId /\ slugChanges /\ SlugPatternOk(slug)
                  /\ Len(slug) <= MaxSlugLen /\ Len(name) <= MaxUpdateNameLen
                  /\ HeldByDeletedOnly(teams, slug)
       IN /\ procs' = [procs EXCEPT ![p] =
                Finish([c EXCEPT !.pre = pre,
                                 !.rowCopy = IF res = "ok" THEN saved ELSE NoRow], res)]
          /\ teams' = IF res = "ok" THEN [teams EXCEPT ![id] = saved] ELSE teams
    /\ UNCHANGED <<configs, memberships, invites, orgSettings, pendingSaves, now>>

(* deleteTeam, lines 452-455: findTeamById *)
DeleteTeam(p, teamId) ==
    /\ Ready(p)
    /\ calls' = calls + 1
    /\ LET c == Call("deleteTeam", "", teamId, "", "", "")
           id == FindTeamById(teams, teamId)
       IN procs' = [procs EXCEPT ![p] =
             IF id = NoId THEN Finish(c, "ok")
             ELSE [c EXCEPT !.pc = "saveTeam", !.rowId = id, !.rowCopy = teams[id]]]
    /\ UNCHANGED <<tables, now>>

(* deleteTeam, lines 456-457: markedDeleted = true, save the team as read *)
DeleteTeamSave(p) ==
    /\ procs[p].op = "deleteTeam" /\ procs[p].pc = "saveTeam"
    /\ teams' = [teams EXCEPT ![procs[p].rowId] =
                    [procs[p].rowCopy EXCEPT !.markedDeleted = TRUE]]
    /\ procs' = [procs EXCEPT ![p] = [@ EXCEPT !.pc = "findSettings"]]
    /\ UNCHANGED <<configs, memberships, invites, orgSettings, pendingSaves, calls, now>>

(* the rows matched by orgSettingsRepo.findOne({ where: { orgId, deleted: false } }) *)
LiveSettings(S, orgId) ==
    {i \in Ids(S) : S[i].orgId = orgId /\ ~S[i].deleted}

(* deleteOrgSettings, lines 462-469: the save is issued and not awaited, so *)
(* the call returns with the write still pending                           *)
DeleteOrgSettings(p) ==
    /\ procs[p].op = "deleteTeam" /\ procs[p].pc = "findSettings"
    /\ LET found == LiveSettings(orgSettings, procs[p].teamId)
       IN pendingSaves' =
            IF found = {} THEN pendingSaves
            ELSE LET i == CHOOSE j \in found : \A k \in found : j <= k
                 IN pendingSaves \cup {[rowId |-> i, row |-> [orgSettings[i] EXCEPT !.deleted = TRUE]]}
    /\ procs' = [procs EXCEPT ![p] = Finish(procs[p], "ok")]
    /\ UNCHANGED <<configs, teams, memberships, invites, orgSettings, calls, now>>

----------------------------------------------------------------------------
(* Org settings store.  A settings row is [orgId, workspaceSharingDisabled, *)
(* deleted].  The entity DBOrgSettings is not part of the sources, so the   *)
(* table is given no key: insert appends a row.  A value of                 *)
(* workspaceSharingDisabled is "true", "false", Omitted (the property is    *)
(* undefined in a Partial<OrganizationSettings>) or ColumnDefault (what the *)
(* column holds after an insert that did not supply it).                    *)

Omitted == "undefined"

ColumnDefault == "default"

(* The settings.workspaceSharingDisabled offered to setOrgSettings *)
WsdInputs == {"true", "false", Omitted}

(* findOrgSettings, lines 572-575: the rows one of which is returned *)
FindOrgSettings(S, orgId) == LiveSettings(S, orgId)

(* setOrgSettings, lines 577-579 and 586-588: findOne; on a row, assign the *)
(* input's workspaceSharingDisabled (undefined when omitted) and issue the  *)
(* save without awaiting it                                                 *)
SetOrgSettings(p, orgId, wsd) ==
    /\ Ready(p)
    /\ calls' = calls + 1
    /\ LET c == [Call("setOrgSettings", "", orgId, "", "", "")
                    EXCEPT !.rowCopy = [workspaceSharingDisabled |-> wsd]]
           found == LiveSettings(orgSettings, orgId)
       IN IF found = {}
          THEN /\ procs' = [procs EXCEPT ![p] = [c EXCEPT !.pc = "insertSettings"]]
               /\ UNCHANGED pendingSaves
          ELSE \E i \in found :
                 /\ pendingSaves' = pendingSaves \cup
                       {[rowId |-> i,
                         row |-> [orgSettings[i] EXCEPT !.workspaceSharingDisabled = wsd]]}
                 /\ procs' = [procs EXCEPT ![p] =
                       Finish([c EXCEPT !.rowId = i, !.pre = TRUE], "ok")]
    /\ UNCHANGED <<teams, memberships, invites, orgSettings, configs, now>>

(* setOrgSettings, lines 580-585: repo.insert({ ...settings, orgId }) *)
SetOrgSettingsInsert(p) ==
    /\ procs[p].op = "setOrgSettings" /\ procs[p].pc = "insertSettings"
    /\ LET wsd == procs[p].rowCopy.workspaceSharingDisabled
       IN orgSettings' = Append(orgSettings,
              [orgId |-> procs[p].teamId,
               workspaceSharingDisabled |-> IF wsd = Omitted THEN ColumnDefault ELSE wsd,
               deleted |-> FALSE])
    /\ procs' = [procs EXCEPT ![p] = Finish([@ EXCEPT !.rowId = Len(orgSettings) + 1], "ok")]
    /\ UNCHANGED <<teams, memberships, invites, pendingSaves, configs, calls, now>>

(* SaveEntity writing an undefined property as the column default *)
SaveEntityUndefinedAsDefault(row, entity) ==
    [orgId |-> entity.orgId,
     workspaceSharingDisabled |->
        IF entity.workspaceSharingDisabled = Omitted THEN ColumnDefault
        ELSE entity.workspaceSharingDisabled,
     deleted |-> entity.deleted]

(* repo.save(entity) on a stored row (lines 467, 587): the row takes the *)
(* entity's properties, except the undefined ones, which save skips      *)
SaveEntity(row, entity) ==
    [orgId |-> entity.orgId,
     workspaceSharingDisabled |->
        IF entity.workspaceSharingDisabled = Omitted THEN row.workspaceSharingDisabled
        ELSE entity.workspaceSharingDisabled,
     deleted |-> entity.deleted]

(* a save that was issued without await (lines 467, 587) reaches the table *)
ApplyPendingSave(s) ==
    /\ s \in pendingSaves
    /\ orgSettings' = [orgSettings EXCEPT ![s.rowId] = SaveEntity(@, s.row)]
    /\ pendingSaves' = pendingSaves \ {s}
    /\ UNCHANGED <<teams, memberships, invites, configs, procs, calls, now>>

ApplyPending == \E s \in pendingSaves : ApplyPendingSave(s)

----------------------------------------------------------------------------
(* Read paths *)

(* findMembersByTeam, lines 302-319: the results the call can return. A   *)
(* result has one info per user with a live membership of the team, taken *)
(* from the first such membership in the order the storage returned the   *)
(* rows (the query has no ORDER BY, so any of the user's live memberships *)
(* can be the first); each user of the model has a user row               *)
FindMembersByTeam(M, teamId) ==
    LET live == {j \in Ids(M) : M[j].teamId = teamId /\ ~M[j].deleted}
        users == {M[i].userId : i \in live}
        firsts == {f \in [users -> live] : \A u \in users : M[f[u]].userId = u}
    IN {{[userId |-> u, role |-> M[f[u]].role, memberSince |-> M[f[u]].creationTime] :
            u \in users} : f \in firsts}

(* findTeamsByUser, lines 326-332: the ids of the teams returned *)
FindTeamsByUser(T, M, userId) ==
    {t \in {M[i].teamId : i \in {j \in Ids(M) : M[j].userId = userId /\ ~M[j].deleted}} :
        t \in Ids(T) /\ ~T[t].markedDeleted}

(* the test of lines 340-343 on one result of findMembersByTeam *)
IsSoleOwner(members, userId) ==
    LET ownerships == {m \in members : m.role = "owner"}
    IN Cardinality(ownerships) = 1 /\ \A m \in ownerships : m.userId = userId

(* findTeamsByUserAsSoleOwner, lines 334-347: the sets of team ids the call *)
(* can return, one findMembersByTeam result per team of findTeamsByUser     *)
FindTeamsByUserAsSoleOwner(T, M, userId) ==
    {S \in SUBSET FindTeamsByUser(T, M, userId) :
        /\ \A t \in S :
              \E members \in FindMembersByTeam(M, t) : IsSoleOwner(members, userId)
        /\ \A t \in FindTeamsByUser(T, M, userId) \ S :
              \E members \in FindMembersByTeam(M, t) : ~IsSoleOwner(members, userId)}

----------------------------------------------------------------------------
(* Membership store *)

(* the team check shared by the membership methods, e.g. lines 472-476: *)
(* teamRepo.findOne(teamId), then !team || !!team.deleted               *)
TeamMissing(T, teamId) ==
    FindTeamRaw(T, teamId) = NoId \/ T[teamId].deleted

(* addMemberToTeam, lines 471-476 *)
AddMemberToTeam(p, userId, teamId) ==
    /\ Ready(p)
    /\ calls' = calls + 1
    /\ LET c == [Call("addMemberToTeam", userId, teamId, "member", "", "")
                    EXCEPT !.pre = /\ FindTeamById(teams, teamId) # NoId
                                   /\ LiveMemberships(memberships, teamId, userId) = {}]
       IN procs' = [procs EXCEPT ![p] =
             IF TeamMissing(teams, teamId) THEN Finish(c, "NOT_FOUND")
             ELSE [c EXCEPT !.pc = "findMembership"]]
    /\ UNCHANGED <<tables, now>>

(* AddFindMembership without the already-a-member check *)
AddFindMembershipUnchecked(p) ==
    /\ procs[p].op = "addMemberToTeam" /\ procs[p].pc = "findMembership"
    /\ procs' = [procs EXCEPT ![p] = [@ EXCEPT !.pc = "saveMembership"]]
    /\ UNCHANGED <<tables, calls, now>>

(* addMemberToTeam, lines 477-482 *)
AddFindMembership(p) ==
    /\ procs[p].op = "addMemberToTeam" /\ procs[p].pc = "findMembership"
    /\ procs' = [procs EXCEPT ![p] =
          IF LiveMemberships(memberships, procs[p].teamId, procs[p].userId) # {}
          THEN Finish(@, "already_member")
          ELSE [@ EXCEPT !.pc = "saveMembership"]]
    /\ UNCHANGED <<tables, calls, now>>

(* addMemberToTeam, lines 483-490 *)
AddSaveMembership(p) ==
    /\ procs[p].op = "addMemberToTeam" /\ procs[p].pc = "saveMembership"
    /\ memberships' = Append(memberships,
            [teamId |-> procs[p].teamId, userId |-> procs[p].userId, role |-> "member",
             creationTime |-> now, deleted |-> FALSE])
    /\ procs' = [procs EXCEPT ![p] = Finish([@ EXCEPT !.rowId = Len(memberships) + 1], "added")]
    /\ UNCHANGED <<configs, teams, invites, orgSettings, pendingSaves, calls, now>>

(* setTeamMemberRole, lines 493-501 *)
SetTeamMemberRole(p, userId, teamId, role) ==
    /\ Ready(p)
    /\ calls' = calls + 1
    /\ LET c == [Call("setTeamMemberRole", userId, teamId, role, "", "")
                    EXCEPT !.owners0 = LiveOwners(memberships, teamId),
                           !.pre = LiveMemberships(memberships, teamId, userId) = {}]
       IN procs' = [procs EXCEPT ![p] =
             IF TeamMissing(teams, teamId) THEN Finish(c, "NOT_FOUND")
             ELSE IF role # "owner" THEN [c EXCEPT !.pc = "countOwners"]
             ELSE [c EXCEPT !.pc = "findMembership"]]
    /\ UNCHANGED <<tables, now>>

(* SetRoleCountOwners with ownerCount < 1 for ownerCount <= 1 *)
SetRoleCountOwnersOffByOne(p) ==
    /\ procs[p].op = "setTeamMemberRole" /\ procs[p].pc = "countOwners"
    /\ procs' = [procs EXCEPT ![p] =
          IF OwnerCount(memberships, procs[p].teamId) < 1
          THEN Finish(@, "CONFLICT")
          ELSE [@ EXCEPT !.pc = "findMembership"]]
    /\ UNCHANGED <<tables, calls, now>>

(* setTeamMemberRole, lines 501-510 *)
SetRoleCountOwners(p) ==
    /\ procs[p].op = "setTeamMemberRole" /\ procs[p].pc = "countOwners"
    /\ procs' = [procs EXCEPT ![p] =
          IF OwnerCount(memberships, procs[p].teamId) <= 1
          THEN Finish(@, "CONFLICT")
          ELSE [@ EXCEPT !.pc = "findMembership"]]
    /\ UNCHANGED <<tables, calls, now>>

(* lines 512-515 / 527-533: membershipRepo.findOne({ teamId, userId, deleted: false }), *)
(* which returns any one of the matching rows                                          *)
FindMembership(p, missing) ==
    LET found == LiveMemberships(memberships, procs[p].teamId, procs[p].userId)
    IN IF found = {}
       THEN procs' = [procs EXCEPT ![p] = Finish(@, missing)]
       ELSE \E i \in found :
              procs' = [procs EXCEPT ![p] =
                  [@ EXCEPT !.pc = "saveMembership", !.rowId = i, !.rowCopy = memberships[i]]]

(* setTeamMemberRole, lines 512-515 *)
SetRoleFindMembership(p) ==
    /\ procs[p].op = "setTeamMemberRole" /\ procs[p].pc = "findMembership"
    /\ FindMembership(p, "NOT_FOUND")
    /\ UNCHANGED <<tables, calls, now>>

(* setTeamMemberRole, lines 516-517: the membership as read, with the new role *)
SetRoleSave(p) ==
    /\ procs[p].op = "setTeamMemberRole" /\ procs[p].pc = "saveMembership"
    /\ memberships' = [memberships EXCEPT ![procs[p].rowId] =
                          [procs[p].rowCopy EXCEPT !.role = procs[p].role]]
    /\ procs' = [procs EXCEPT ![p] = Finish(@, "ok")]
    /\ UNCHANGED <<configs, teams, invites, orgSettings, pendingSaves, calls, now>>

(* removeMemberFromTeam, lines 520-525 *)
RemoveMemberFromTeam(p, userId, teamId) ==
    /\ Ready(p)
    /\ calls' = calls + 1
    /\ LET c == Call("removeMemberFromTeam", userId, teamId, "", "", "")
       IN procs' = [procs EXCEPT ![p] =
             IF TeamMissing(teams, teamId) THEN Finish(c, "NOT_FOUND")
             ELSE [c EXCEPT !.pc = "findMembership"]]
    /\ UNCHANGED <<tables, now>>

(* removeMemberFromTeam, lines 526-533 *)
RemoveFindMembership(p) ==
    /\ procs[p].op = "removeMemberFromTeam" /\ procs[p].pc = "findMembership"
    /\ FindMembership(p, "BAD_REQUEST")
    /\ UNCHANGED <<tables, calls, now>>

(* removeMemberFromTeam, lines 534-535: the membership as read, with deleted = true *)
RemoveSave(p) ==
    /\ procs[p].op = "removeMemberFromTeam" /\ procs[p].pc = "saveMembership"
    /\ memberships' = [memberships EXCEPT ![procs[p].rowId] =
                          [procs[p].rowCopy EXCEPT !.deleted = TRUE]]
    /\ procs' = [procs EXCEPT ![p] = Finish(@, "ok")]
    /\ UNCHANGED <<configs, teams, invites, orgSettings, pendingSaves, calls, now>>

----------------------------------------------------------------------------
(* Invite store *)

(* the rows findGenericInviteByTeamId filters from inviteRepo.find({ teamId }), line 550 *)
GenericInvites(I, teamId) ==
    {i \in Ids(I) : I[i].teamId = teamId /\ I[i].invalidationTime = EmptyTime
                    /\ I[i].invitedEmail = ""}

(* resetGenericInvite, lines 553-556: findGenericInviteByTeamId returns element [0] *)
(* of an unordered find, any one of the valid generic invites                      *)
ResetGenericInvite(p, teamId) ==
    /\ Ready(p)
    /\ calls' = calls + 1
    /\ LET found == GenericInvites(invites, teamId)
           c == [Call("resetGenericInvite", "", teamId, "", "", "")
                    EXCEPT !.pre = found # {}]
       IN IF found = {}
          THEN procs' = [procs EXCEPT ![p] = [c EXCEPT !.pc = "insertInvite"]]
          ELSE \E i \in found :
                 procs' = [procs EXCEPT ![p] =
                    [c EXCEPT !.pc = "invalidate", !.rowId = i, !.rowCopy = invites[i]]]
    /\ UNCHANGED <<tables, now>>

(* ResetInvalidate without the save of the invalidated invite *)
ResetInvalidateUnsaved(p) ==
    /\ procs[p].op = "resetGenericInvite" /\ procs[p].pc = "invalidate"
    /\ procs' = [procs EXCEPT ![p] = [@ EXCEPT !.pc = "insertInvite"]]
    /\ UNCHANGED <<tables, calls, now>>

(* resetGenericInvite, lines 557-558: the invite as read, invalidated now *)
ResetInvalidate(p) ==
    /\ procs[p].op = "resetGenericInvite" /\ procs[p].pc = "invalidate"
    /\ invites' = [invites EXCEPT ![procs[p].rowId] =
                      [procs[p].rowCopy EXCEPT !.invalidationTime = now]]
    /\ procs' = [procs EXCEPT ![p] = [@ EXCEPT !.pc = "insertInvite"]]
    /\ UNCHANGED <<configs, teams, memberships, orgSettings, pendingSaves, calls, now>>

(* resetGenericInvite, lines 561-569: the new invite; the call returns it *)
ResetInsert(p) ==
    /\ procs[p].op = "resetGenericInvite" /\ procs[p].pc = "insertInvite"
    /\ invites' = Append(invites,
            [teamId |-> procs[p].teamId, role |-> "member", creationTime |-> now,
             invalidationTime |-> EmptyTime, invitedEmail |-> ""])
    /\ procs' = [procs EXCEPT ![p] =
          Finish([@ EXCEPT !.rowId = Len(invites) + 1, !.rowCopy = NoRow], "ok")]
    /\ UNCHANGED <<configs, teams, memberships, orgSettings, pendingSaves, calls, now>>

(* resetGenericInvite, line 568: inviteRepo.save(newInvite) rejects (the *)
(* store is unavailable, or the request is cancelled); nothing catches   *)
(* the error, so the call ends with it                                   *)
ResetInsertFails(p) ==
    /\ procs[p].op = "resetGenericInvite" /\ procs[p].pc = "insertInvite"
    /\ procs' = [procs EXCEPT ![p] = Finish([@ EXCEPT !.rowId = NoId, !.rowCopy = NoRow], "storage_error")]
    /\ UNCHANGED <<tables, calls, now>>

(* the clock advances *)
Tick ==
    /\ now < MaxTime
    /\ now' = now + 1
    /\ UNCHANGED <<tables, procs, calls>>

----------------------------------------------------------------------------
(* OIDC client config store.  A config row is kept under its id, the     *)
(* primary key the caller supplies; organizationId is the id of a team   *)
(* or uuid.Nil (NoId).  The data column is written once and read by none *)
(* of the functions below, so the rows of the model do not carry it.     *)

(* uuid.Nil as a config id *)
NilUuid == ""

ConfigIds == {"c1", "c2"}

(* Issuers offered to CreateOIDCClientConfig *)
Issuers == {"", "https://idp"}

(* Organization ids offered to the config store *)
ConfigOrgs == {1, 2}

(* the rows matched by Where("id = ?", id).Where("deleted = ?", 0) *)
LiveConfig(C, id) ==
    id \in DOMAIN C /\ ~C[id].deleted

(* the rows matched by Where("id = ?").Where("organizationId = ?").Where("deleted = ?", 0) *)
LiveConfigOf(C, id, organizationID) ==
    id \in DOMAIN C /\ C[id].organizationId = organizationID /\ ~C[id].deleted

(* ListOIDCClientConfigsForOrganization, lines 124-142: the ids of the rows returned *)
ListOIDCClientConfigsForOrganization(C, organizationID) ==
    IF organizationID = NoId THEN {}
    ELSE {id \in DOMAIN C : C[id].organizationId = organizationID /\ ~C[id].deleted}

(* GetOIDCClientConfigByOrgSlug, lines 172-193: the results the call can   *)
(* return. The join matches the non-deleted configs whose organizationId  *)
(* is the id of a team row with the slug, whatever the deletion flags of  *)
(* that team row; First returns the matched row with the least id (ids    *)
(* are random uuids, so any matched row can be the one), and an empty     *)
(* match is an error like any other.                                      *)
GetOIDCClientConfigByOrgSlug(C, T, slug) ==
    IF slug = "" THEN {"required_argument"}
    ELSE LET matched == {id \in DOMAIN C :
                            /\ C[id].organizationId \in Ids(T)
                            /\ T[C[id].organizationId].slug = slug
                            /\ ~C[id].deleted}
         IN IF matched = {} THEN {"failed_to_get"} ELSE matched

OidcCall(op, id, organizationID) ==
    [Idle EXCEPT !.op = op, !.cfgId = id, !.teamId = organizationID]

(* CreateOIDCClientConfig, lines 55-72: Create(&cfg) inserts the struct as *)
(* given (the column defaults apply to zero values only) and fails on an   *)
(* id that is already stored                                               *)
CreateOIDCClientConfig(p, cfg) ==
    /\ Ready(p)
    /\ calls' = calls + 1
    /\ LET c == [OidcCall("CreateOIDCClientConfig", cfg.id, cfg.organizationId)
                    EXCEPT !.rowCopy = cfg]
       IN IF cfg.id = NilUuid \/ cfg.issuer = ""
          THEN /\ procs' = [procs EXCEPT ![p] = Finish(c, "required_argument")]
               /\ UNCHANGED configs
          ELSE IF cfg.id \in DOMAIN configs
          THEN /\ procs' = [procs EXCEPT ![p] = Finish(c, "failed_to_create")]
               /\ UNCHANGED configs
          ELSE /\ configs' = configs @@
                    (cfg.id :> [organizationId |-> cfg.organizationId, issuer |-> cfg.issuer,
                                active |-> cfg.active, lastModified |-> now, deleted |-> FALSE])
               /\ procs' = [procs EXCEPT ![p] = Finish(c, "ok")]
    /\ UNCHANGED <<teams, memberships, invites, orgSettings, pendingSaves, now>>

(* DeleteOIDCClientConfig without the organizationId condition *)
DeleteOIDCClientConfigAnyOrg(p, id, organizationID) ==
    /\ Ready(p)
    /\ calls' = calls + 1
    /\ LET c == OidcCall("DeleteOIDCClientConfig", id, organizationID)
       IN IF id = NilUuid \/ organizationID = NoId
          THEN /\ procs' = [procs EXCEPT ![p] = Finish(c, "required_argument")]
               /\ UNCHANGED configs
          ELSE IF ~LiveConfig(configs, id)
          THEN /\ procs' = [procs EXCEPT ![p] = Finish(c, "ErrorNotFound")]
               /\ UNCHANGED configs
          ELSE /\ configs' = [configs EXCEPT ![id].deleted = TRUE]
               /\ procs' = [procs EXCEPT ![p] = Finish(c, "ok")]
    /\ UNCHANGED <<teams, memberships, invites, orgSettings, pendingSaves, now>>

(* DeleteOIDCClientConfig, lines 144-170: one UPDATE, then RowsAffected *)
DeleteOIDCClientConfig(p, id, organizationID) ==
    /\ Ready(p)
    /\ calls' = calls + 1
    /\ LET c == OidcCall("DeleteOIDCClientConfig", id, organizationID)
       IN IF id = NilUuid \/ organizationID = NoId
          THEN /\ procs' = [procs EXCEPT ![p] = Finish(c, "required_argument")]
               /\ UNCHANGED configs
          ELSE IF ~LiveConfigOf(configs, id, organizationID)
          THEN /\ procs' = [procs EXCEPT ![p] = Finish(c, "ErrorNotFound")]
               /\ UNCHANGED configs
          ELSE /\ configs' = [configs EXCEPT ![id].deleted = TRUE]
               /\ procs' = [procs EXCEPT ![p] = Finish(c, "ok")]
    /\ UNCHANGED <<teams, memberships, invites, orgSettings, pendingSaves, now>>

(* ActivateClientConfig, lines 195-199: GetOIDCClientConfig (lines 74-94) *)
ActivateClientConfig(p, id) ==
    /\ Ready(p)
    /\ calls' = calls + 1
    /\ LET c == OidcCall("ActivateClientConfig", id, NoId)
       IN procs' = [procs EXCEPT ![p] =
             IF id = NilUuid THEN Finish(c, "required_argument")
             ELSE IF ~LiveConfig(configs, id) THEN Finish(c, "ErrorNotFound")
             ELSE [c EXCEPT !.pc = "activate"]]
    /\ UNCHANGED <<tables, now>>

(* ActivateUpdate without the Where("id = ?") condition *)
ActivateUpdateEveryRow(p) ==
    /\ procs[p].op = "ActivateClientConfig" /\ procs[p].pc = "activate"
    /\ configs' = [id \in DOMAIN configs |-> [configs[id] EXCEPT !.active = TRUE]]
    /\ procs' = [procs EXCEPT ![p] = Finish(@, "ok")]
    /\ UNCHANGED <<teams, memberships, invites, orgSettings, pendingSaves, calls, now>>

(* ActivateClientConfig, lines 201-209: UPDATE ... SET active = 1 WHERE id = ? *)
ActivateUpdate(p) ==
    /\ procs[p].op = "ActivateClientConfig" /\ procs[p].pc = "activate"
    /\ configs' = [id \in DOMAIN configs |->
                      IF id = procs[p].cfgId THEN [configs[id] EXCEPT !.active = TRUE]
                      ELSE configs[id]]
    /\ procs' = [procs EXCEPT ![p] = Finish(@, "ok")]
    /\ UNCHANGED <<teams, memberships, invites, orgSettings, pendingSaves, calls, now>>

----------------------------------------------------------------------------
(* Concurrent create / rename / delete of organizations *)

SlugCreateTeam(p) ==
    /\ calls < MaxSlugCalls
    /\ \E n \in Names, s \in Suffixes : CreateTeam(p, "U1", n, s)

SlugUpdateTeam(p) ==
    /\ calls < MaxSlugCalls
    /\ \E t \in 1..2, n \in {"Acme", ""}, s \in SlugInputs : UpdateTeam(p, t, n, s)

SlugDeleteTeam(p) ==
    /\ calls < MaxSlugCalls
    /\ \E t \in 1..2 : DeleteTeam(p, t)

NextSlug ==
    \E p \in Callers :
        \/ SlugCreateTeam(p)
        \/ SlugUpdateTeam(p)
        \/ SlugDeleteTeam(p)
        \/ CreateTeamSaveOwner(p)
        \/ DeleteTeamSave(p)
        \/ DeleteOrgSettings(p)

SpecSlug == Init /\ [][NextSlug]_vars

----------------------------------------------------------------------------
(* Concurrent membership calls on one organization *)

MemberCreateTeam(p) ==
    /\ calls < MaxMemberCalls
    /\ Len(teams) = 0
    /\ \E u \in Users : CreateTeam(p, u, "Acme", "0000000a")

MemberAdd(p) ==
    /\ calls < MaxMemberCalls
    /\ \E u \in Users : AddMemberToTeam(p, u, 1)

MemberSetRole(p) ==
    /\ calls < MaxMemberCalls
    /\ \E u \in Users, r \in Roles : SetTeamMemberRole(p, u, 1, r)

MemberRemove(p) ==
    /\ calls < MaxMemberCalls
    /\ \E u \in Users : RemoveMemberFromTeam(p, u, 1)

MemberDeleteTeam(p) ==
    /\ calls < MaxMemberCalls
    /\ DeleteTeam(p, 1)

NextMember ==
    \E p \in Callers :
        \/ MemberCreateTeam(p)
        \/ MemberAdd(p)
        \/ MemberSetRole(p)
        \/ MemberRemove(p)
        \/ MemberDeleteTeam(p)
        \/ CreateTeamSaveOwner(p)
        \/ AddFindMembership(p)
        \/ AddSaveMembership(p)
        \/ SetRoleCountOwners(p)
        \/ SetRoleFindMembership(p)
        \/ SetRoleSave(p)
        \/ RemoveFindMembership(p)
        \/ RemoveSave(p)
        \/ DeleteTeamSave(p)
        \/ DeleteOrgSettings(p)

SpecMember == Init /\ [][NextMember]_vars

----------------------------------------------------------------------------
(* Concurrent invite resets *)

InviteReset(p) ==
    /\ calls < MaxInviteCalls
    /\ \E t \in InviteTeams : ResetGenericInvite(p, t)

NextInvite ==
    \/ \E p \in Callers :
        \/ InviteReset(p)
        \/ ResetInvalidate(p)
        \/ ResetInsert(p)
    \/ Tick

SpecInvite == Init /\ [][NextInvite]_vars



----------------------------------------------------------------------------
(* Calls made one after another: call k is made by caller k, so procs is *)
(* the history of the calls and their results                            *)

Quiet == \A p \in DOMAIN procs : Ready(p)

InitSeq ==
    /\ teams = <<>>
    /\ memberships = <<>>
    /\ invites = <<>>
    /\ orgSettings = <<>>
    /\ pendingSaves = {}
    /\ configs = <<>>
    /\ procs = [p \in SeqCallers |-> Idle]
    /\ calls = 0
    /\ now = 1

SeqCreateTeam(p) ==
    /\ Quiet /\ p = calls + 1
    /\ \E u \in Users : CreateTeam(p, u, "Acme", "0000000a")

SeqAdd(p) ==
    /\ Quiet /\ p = calls + 1
    /\ \E u \in Users : AddMemberToTeam(p, u, 1)

SeqSetRole(p) ==
    /\ Quiet /\ p = calls + 1
    /\ \E u \in Users, r \in Roles : SetTeamMemberRole(p, u, 1, r)

SeqRemove(p) ==
    /\ Quiet /\ p = calls + 1
    /\ \E u \in Users : RemoveMemberFromTeam(p, u, 1)

SeqDeleteTeam(p) ==
    /\ Quiet /\ p = calls + 1
    /\ DeleteTeam(p, 1)

NextSeq ==
    \E p \in SeqCallers :
        \/ SeqCreateTeam(p)
        \/ SeqAdd(p)
        \/ SeqSetRole(p)
        \/ SeqRemove(p)
        \/ SeqDeleteTeam(p)
        \/ CreateTeamSaveOwner(p)
        \/ AddFindMembership(p)
        \/ AddSaveMembership(p)
        \/ SetRoleCountOwners(p)
        \/ SetRoleFindMembership(p)
        \/ SetRoleSave(p)
        \/ RemoveFindMembership(p)
        \/ RemoveSave(p)
        \/ DeleteTeamSave(p)
        \/ DeleteOrgSettings(p)

SpecSeq == InitSeq /\ [][NextSeq]_vars

(* Invite resets made one after another, while the clock runs *)

InitInviteSeq ==
    /\ teams = <<>>
    /\ memberships = <<>>
    /\ invites = <<>>
    /\ orgSettings = <<>>
    /\ pendingSaves = {}
    /\ configs = <<>>
    /\ procs = [p \in ResetCallers |-> Idle]
    /\ calls = 0
    /\ now = 1

SeqReset(p) ==
    /\ Quiet /\ p = calls + 1
    /\ \E t \in InviteTeams : ResetGenericInvite(p, t)

NextInviteSeq ==
    \/ \E p \in ResetCallers :
        \/ SeqReset(p)
        \/ ResetInvalidate(p)
        \/ ResetInsert(p)
    \/ Tick

SpecInviteSeq == InitInviteSeq /\ [][NextInviteSeq]_vars

(* Invite resets made one after another, with a store that may fail *)

NextInviteFail ==
    \/ \E p \in ResetCallers :
        \/ SeqReset(p)
        \/ ResetInvalidate(p)
        \/ ResetInsert(p)
        \/ ResetInsertFails(p)
    \/ Tick

SpecInviteFail == InitInviteSeq /\ [][NextInviteFail]_vars

----------------------------------------------------------------------------
(* Creates and renames with names and slugs at the length limits *)

(* A display name of 60 lowercase letters; trim and slugify leave it as it is *)
LongName == "abcdefghijabcdefghijabcdefghijabcdefghijabcdefghijabcdefghij"

FormNames == {"Acme", LongName}

(* Slugs offered to updateTeam: two characters, one outside the pattern, *)
(* the slug of "Acme", and "" for "not supplied"                        *)
FormSlugs == {"ab", "a_b", "acme", ""}

(* Names offered to updateTeam; "" is "not supplied" *)
FormUpdateNames == {"Acme", LongName, ""}

FormCreateTeam(p) ==
    /\ calls < MaxFormCalls
    /\ \E n \in FormNames : CreateTeam(p, "U1", n, "0000000a")

FormUpdateTeam(p) ==
    /\ calls < MaxFormCalls
    /\ \E t \in 1..2, n \in FormUpdateNames, s \in FormSlugs : UpdateTeam(p, t, n, s)

NextForm ==
    \E p \in Callers :
        \/ FormCreateTeam(p)
        \/ FormUpdateTeam(p)
        \/ CreateTeamSaveOwner(p)

SpecForm == Init /\ [][NextForm]_vars

----------------------------------------------------------------------------
(* Concurrent calls of the OIDC client config store *)

SsoCreate(p) ==
    /\ calls < MaxSsoCalls
    /\ \E id \in ConfigIds \cup {NilUuid}, org \in ConfigOrgs, iss \in Issuers, a \in BOOLEAN :
          CreateOIDCClientConfig(p, [id |-> id, organizationId |-> org, issuer |-> iss, active |-> a])

SsoDelete(p) ==
    /\ calls < MaxSsoCalls
    /\ \E id \in ConfigIds \cup {NilUuid}, org \in ConfigOrgs \cup {NoId} :
          DeleteOIDCClientConfig(p, id, org)

SsoActivate(p) ==
    /\ calls < MaxSsoCalls
    /\ \E id \in ConfigIds \cup {NilUuid} : ActivateClientConfig(p, id)

NextSso ==
    \E p \in Callers :
        \/ SsoCreate(p)
        \/ SsoDelete(p)
        \/ SsoActivate(p)
        \/ ActivateUpdate(p)

SpecSso == Init /\ [][NextSso]_vars

----------------------------------------------------------------------------
(* Deletion of an organization that has members, an invite, settings and *)
(* an OIDC client config; calls made one after another                   *)

DeleteCallers == 1..MaxDeleteCalls

InitDelete ==
    /\ teams = <<>>
    /\ memberships = <<>>
    /\ invites = <<>>
    /\ orgSettings = <<>>
    /\ pendingSaves = {}
    /\ configs = <<>>
    /\ procs = [p \in DeleteCallers |-> Idle]
    /\ calls = 0
    /\ now = 1

DelCreateTeam(p) ==
    /\ Quiet /\ p = calls + 1
    /\ CreateTeam(p, "U1", "Acme", "0000000a")

DelAdd(p) ==
    /\ Quiet /\ p = calls + 1
    /\ AddMemberToTeam(p, "U2", 1)

DelReset(p) ==
    /\ Quiet /\ p = calls + 1
    /\ ResetGenericInvite(p, 1)

DelCreateConfig(p) ==
    /\ Quiet /\ p = calls + 1
    /\ CreateOIDCClientConfig(p, [id |-> "c1", organizationId |-> 1,
                                  issuer |-> "https://idp", active |-> FALSE])

DelSetOrgSettings(p) ==
    /\ Quiet /\ p = calls + 1
    /\ \E w \in WsdInputs : SetOrgSettings(p, 1, w)

DelDeleteTeam(p) ==
    /\ Quiet /\ p = calls + 1
    /\ DeleteTeam(p, 1)

NextDelete ==
    \/ \E p \in DeleteCallers :
        \/ DelCreateTeam(p)
        \/ DelAdd(p)
        \/ DelReset(p)
        \/ DelCreateConfig(p)
        \/ DelSetOrgSettings(p)
        \/ DelDeleteTeam(p)
        \/ CreateTeamSaveOwner(p)
        \/ AddFindMembership(p)
        \/ AddSaveMembership(p)
        \/ ResetInvalidate(p)
        \/ ResetInsert(p)
        \/ SetOrgSettingsInsert(p)
        \/ DeleteTeamSave(p)
        \/ DeleteOrgSettings(p)
    \/ ApplyPending

SpecDelete == InitDelete /\ [][NextDelete]_vars

----------------------------------------------------------------------------
(* setOrgSettings calls made one after another, on two organizations *)

SettingsCallers == 1..MaxSettingsCalls

SettingsOrgs == {1, 2}

InitSettings ==
    /\ teams = <<>>
    /\ memberships = <<>>
    /\ invites = <<>>
    /\ orgSettings = <<>>
    /\ pendingSaves = {}
    /\ configs = <<>>
    /\ procs = [p \in SettingsCallers |-> Idle]
    /\ calls = 0
    /\ now = 1

SeqSetOrgSettings(p) ==
    /\ Quiet /\ p = calls + 1
    /\ \E o \in SettingsOrgs, w \in WsdInputs : SetOrgSettings(p, o, w)

NextSettings ==
    \/ \E p \in SettingsCallers :
        \/ SeqSetOrgSettings(p)
        \/ SetOrgSettingsInsert(p)
    \/ ApplyPending

SpecSettings == InitSettings /\ [][NextSettings]_vars

----------------------------------------------------------------------------
(* Properties *)

LiveTeam(t) == t \in Ids(teams) /\ ~teams[t].deleted /\ ~teams[t].markedDeleted

Done(c, op) == c.op = op /\ c.pc = "done"

(* C1: slug uniqueness.  In every reachable state of concurrent createTeam, *)
(* updateTeam and deleteTeam calls, no two non-deleted organizations have   *)
(* the same slug.                                                           *)
C1_SlugUnique ==
    \A i, j \in Ids(teams) :
        (i # j /\ LiveTeam(i) /\ LiveTeam(j)) => teams[i].slug # teams[j].slug

(* C2: owner floor.  After any sequence of create, add, setRole, remove and *)
(* deleteTeam calls, a non-deleted organization with a live membership has  *)
(* a live owner.                                                            *)
C2_OwnerFloor ==
    \A t \in Ids(teams) :
        (LiveTeam(t) /\ LiveMembers(memberships, t) # {}) => OwnerCount(memberships, t) >= 1

(* a finished demotion of one of the two users who were the live owners of *)
(* the team when the call started                                          *)
Demotion(c, u, v) ==
    /\ Done(c, "setTeamMemberRole") /\ c.role = "member"
    /\ c.userId = u /\ c.owners0 = {u, v}

(* C3: two concurrent setRole(..., member) calls on the two different owners *)
(* of an organization that has exactly those two live owners never both      *)
(* succeed: one fails with CONFLICT and a live owner remains.                *)
C3_NoDoubleDemotion ==
    \A p, q \in DOMAIN procs : \A u, v \in Users :
        (p # q /\ u # v /\ procs[p].teamId = procs[q].teamId
         /\ Demotion(procs[p], u, v) /\ Demotion(procs[q], v, u))
        => /\ procs[p].res = "CONFLICT" \/ procs[q].res = "CONFLICT"
           /\ OwnerCount(memberships, procs[p].teamId) >= 1

(* C4: at most one valid generic invite.  In every reachable state of       *)
(* concurrent resetGenericInvite calls, an organization has at most one     *)
(* invite with empty invitedEmail and empty invalidationTime.               *)
C4_OneValidGenericInvite ==
    \A t \in InviteTeams : Cardinality(GenericInvites(invites, t)) <= 1

(* the resets of team t that have returned *)
Resets(t) == {k \in DOMAIN procs : Done(procs[k], "resetGenericInvite") /\ procs[k].teamId = t}

(* C5: after N >= 1 resets of an organization made one after another,       *)
(* exactly one of its invites is valid, the one the last reset returned;    *)
(* the invite each earlier reset returned is still stored, invalidated, at  *)
(* a time not later than the creationTime of the invite of the next reset.  *)
C5_SequentialResets ==
    \A t \in InviteTeams :
        (Quiet /\ Resets(t) # {}) =>
            LET last == CHOOSE k \in Resets(t) : \A j \in Resets(t) : j <= k
            IN /\ {i \in Ids(invites) : invites[i].teamId = t /\ invites[i].invalidationTime = EmptyTime}
                    = {procs[last].rowId}
               /\ GenericInvites(invites, t) = {procs[last].rowId}
               /\ \A k \in Resets(t) \ {last} :
                    LET nxt == CHOOSE j \in Resets(t) : j > k /\ \A l \in Resets(t) : l > k => j <= l
                        old == procs[k].rowId
                    IN /\ old \in Ids(invites)
                       /\ invites[old].invalidationTime # EmptyTime
                       /\ invites[old].invalidationTime <= invites[procs[nxt].rowId].creationTime

(* C5 happens: three resets of one organization have returned, and an     *)
(* invite was invalidated strictly before its replacement was created     *)
C5_Witness ==
    /\ Quiet /\ Cardinality(Resets(1)) >= 3
    /\ \E i, j \in Ids(invites) :
          /\ invites[i].invalidationTime # EmptyTime
          /\ invites[i].invalidationTime < invites[j].creationTime

(* C6: createTeam is atomic.  In no reachable state does a non-deleted      *)
(* organization that createTeam inserted exist without a live owner         *)
(* membership of the creating user.                                         *)
C6_CreateAtomic ==
    \A p \in DOMAIN procs :
        (procs[p].op = "createTeam" /\ LiveTeam(procs[p].teamId)) =>
            \E i \in LiveMemberships(memberships, procs[p].teamId, procs[p].userId) :
                memberships[i].role = "owner"

(* call k is addMemberToTeam(u, t), made when the organization was live and *)
(* the user had no live membership, and has returned                        *)
FirstAdd(k, u, t) ==
    /\ Done(procs[k], "addMemberToTeam") /\ procs[k].pre
    /\ procs[k].userId = u /\ procs[k].teamId = t

(* call k + 1 is addMemberToTeam(u, t) again *)
SecondAdd(c, u, t) ==
    c.op = "addMemberToTeam" /\ c.userId = u /\ c.teamId = t

OneLiveMember(u, t) ==
    /\ Cardinality(LiveMemberships(memberships, t, u)) = 1
    /\ \A i \in LiveMemberships(memberships, t, u) : memberships[i].role = "member"

C7_Results ==
    \A k \in DOMAIN procs : \A u \in Users, t \in Ids(teams) :
        FirstAdd(k, u, t) =>
            /\ procs[k].res = "added"
            /\ calls = k => OneLiveMember(u, t)
            /\ (k + 1 \in DOMAIN procs /\ SecondAdd(procs[k + 1], u, t)) =>
                  /\ procs[k + 1].pc = "done" => procs[k + 1].res = "already_member"
                  /\ calls = k + 1 => OneLiveMember(u, t)

C7_SecondAddWritesNothing ==
    \A k \in DOMAIN procs : \A u \in Users, t \in Ids(teams) :
        (FirstAdd(k, u, t) /\ k + 1 \in DOMAIN procs /\ calls' = k + 1
         /\ SecondAdd(procs'[k + 1], u, t))
        => UNCHANGED tables

(* C7: idempotent join.  For a live organization in which the user has no   *)
(* live membership, addMemberToTeam(u, t) twice in a row returns "added"    *)
(* and then "already_member"; afterwards (u, t) has exactly one live        *)
(* membership, with role member, and the second call writes no row.         *)
C7_IdempotentJoin == [](C7_Results) /\ [][C7_SecondAddWritesNothing]_vars

(* C7 happens: two addMemberToTeam calls in a row for the same pair returned *)
C7_Witness ==
    \E k \in DOMAIN procs : \E u \in Users :
        /\ k + 1 \in DOMAIN procs
        /\ FirstAdd(k, u, 1) /\ procs[k].res = "added"
        /\ SecondAdd(procs[k + 1], u, 1) /\ procs[k + 1].res = "already_member"

(* C8: membership uniqueness.  In every reachable state of concurrent calls *)
(* a (userId, teamId) pair has at most one non-deleted membership.          *)
C8_MembershipUnique ==
    \A t \in Ids(teams), u \in Users : Cardinality(LiveMemberships(memberships, t, u)) <= 1

(* the candidate slug of a createTeam call *)
Candidate(c) == Slugify(Trim(c.name))

(* C9: soft-delete opacity.  Once deleteTeam has marked an organization,    *)
(* findTeamById returns nothing for it while its row is still stored; and a *)
(* createTeam or updateTeam whose candidate slug is held by soft-deleted    *)
(* organizations only gets exactly that slug, without suffix or error.      *)
C9_SoftDeleteOpacity ==
    \A p \in DOMAIN procs :
        /\ (Done(procs[p], "deleteTeam") /\ procs[p].rowId # NoId) =>
              /\ FindTeamById(teams, procs[p].teamId) = NoId
              /\ procs[p].teamId \in Ids(teams)
              /\ teams[procs[p].teamId].markedDeleted
        /\ (procs[p].op = "createTeam" /\ procs[p].pre) =>
              /\ procs[p].res \in {"", "ok"}
              /\ procs[p].slug = Candidate(procs[p])
              /\ procs[p].rowCopy.slug = Candidate(procs[p])
        /\ (Done(procs[p], "updateTeam") /\ procs[p].pre) =>
              /\ procs[p].res = "ok"
              /\ procs[p].rowCopy.slug = Trim(procs[p].slug)

(* C9 happens: deleteTeam has marked a team, and a createTeam that started *)
(* afterwards returned a team with the slug of the soft-deleted one       *)
C9_Witness ==
    \E p, q \in DOMAIN procs :
        /\ Done(procs[p], "deleteTeam") /\ procs[p].rowId # NoId
        /\ Done(procs[q], "createTeam") /\ procs[q].pre /\ procs[q].res = "ok"
        /\ procs[q].rowCopy.slug = teams[procs[p].teamId].slug

(* the rename case of C9 happens as well *)
C9_RenameReached ==
    \E q \in DOMAIN procs :
        /\ Done(procs[q], "updateTeam") /\ procs[q].pre /\ procs[q].res = "ok"

(* calls k .. k+3 are the scenario: u1 creates the organization t, then    *)
(* setRole(u1, t, member), addMemberToTeam(u2, t), setRole(u1, t, member)  *)
ScenarioCreate(k, u1, t) ==
    /\ Done(procs[k], "createTeam") /\ procs[k].res = "ok"
    /\ procs[k].userId = u1 /\ procs[k].teamId = t

ScenarioDemote(k, u1, t) ==
    /\ k \in DOMAIN procs
    /\ Done(procs[k], "setTeamMemberRole") /\ procs[k].role = "member"
    /\ procs[k].userId = u1 /\ procs[k].teamId = t

ScenarioAdd(k, u2, t) ==
    /\ k \in DOMAIN procs
    /\ Done(procs[k], "addMemberToTeam")
    /\ procs[k].userId = u2 /\ procs[k].teamId = t

Scenario(last) ==
    \A k \in DOMAIN procs : \A u1, u2 \in Users : \A t \in Ids(teams) :
        (u1 # u2 /\ ScenarioCreate(k, u1, t) /\ ScenarioDemote(k + 1, u1, t)) =>
            /\ procs[k + 1].res = "CONFLICT"
            /\ ScenarioAdd(k + 2, u2, t) =>
                  /\ procs[k + 2].res = "added"
                  /\ ScenarioDemote(k + 3, u1, t) => procs[k + 3].res = last

(* C10 as stated: after u1 creates an organization, setRole(u1, t, member)  *)
(* fails with CONFLICT; then addMemberToTeam(u2, t) returns "added"; after  *)
(* that setRole(u1, t, member) succeeds.                                    *)
C10_ScenarioAsStated == Scenario("ok")

(* C10, amended: ... after that setRole(u1, t, member) still fails with     *)
(* CONFLICT, because u2 joined as a member and u1 is still the only owner.  *)
C10_Scenario == Scenario("CONFLICT")

(* C10 happens: the four calls of the scenario have returned *)
C10_Witness ==
    \E k \in DOMAIN procs : \E u1, u2 \in Users : \E t \in Ids(teams) :
        /\ u1 # u2 /\ ScenarioCreate(k, u1, t) /\ ScenarioDemote(k + 1, u1, t)
        /\ ScenarioAdd(k + 2, u2, t) /\ ScenarioDemote(k + 3, u1, t)

(* call k was made after a deleteTeam call that marked organization t *)
SoftDeletedBefore(k, t) ==
    \E j \in DOMAIN procs :
        /\ j < k /\ Done(procs[j], "deleteTeam")
        /\ procs[j].teamId = t /\ procs[j].rowId # NoId

(* C11: membership mutations reject deleted organizations.  An             *)
(* addMemberToTeam call on an organization that an earlier deleteTeam has  *)
(* soft-deleted, or that never existed, fails with NOT_FOUND and creates   *)
(* no membership row.                                                      *)
C11_AddRejectsDeleted ==
    \A k \in DOMAIN procs :
        (/\ procs[k].op = "addMemberToTeam"
         /\ \/ SoftDeletedBefore(k, procs[k].teamId)
            \/ procs[k].teamId \notin Ids(teams))
        => /\ procs[k].pc = "done" /\ procs[k].res = "NOT_FOUND"
           /\ procs[k].rowId = NoId

(* C12: setTeamMemberRole for a user who has no live membership in the     *)
(* organization fails with NOT_FOUND and saves no row, for every requested *)
(* role and every owner count of the organization.                         *)
C12_SetRoleNotFound ==
    \A k \in DOMAIN procs :
        (procs[k].op = "setTeamMemberRole" /\ procs[k].pre) =>
            /\ procs[k].pc # "saveMembership"
            /\ procs[k].pc = "done" => procs[k].res = "NOT_FOUND"

(* another live organization holds the slug *)
HeldByOther(t, slug) ==
    \E i \in Ids(teams) : i # t /\ LiveTeam(i) /\ teams[i].slug = slug

(* the outcome C13 states for the updateTeam call that caller p makes in *)
(* this step                                                             *)
RenameOutcome(p) ==
    LET c == procs'[p]
        t == c.teamId
        name == Trim(c.name)
        slug == Trim(c.slug)
    IN /\ ((name # "" \/ slug # "") /\ ~LiveTeam(t)) =>
              c.res = "NOT_FOUND" /\ teams' = teams
       /\ (LiveTeam(t) /\ slug # "" /\ slug # teams[t].slug /\ HeldByOther(t, slug)) =>
              c.res = "CONFLICT" /\ teams' = teams

(* C13: updateTeam with a name or a slug fails with NOT_FOUND when the     *)
(* organization is absent or soft-deleted, and with CONFLICT when the new  *)
(* slug differs from the current one and another live organization holds   *)
(* it; in both cases no team row changes.                                  *)
C13_RenameErrors ==
    [][\A p \in Callers :
          (procs'[p] # procs[p] /\ procs'[p].op = "updateTeam") => RenameOutcome(p)]_vars

(* C14: slug well-formedness.  After any sequence of createTeam and        *)
(* updateTeam calls the slug of every non-deleted organization has between *)
(* 3 and 63 characters and matches [A-Za-z0-9-]+.                          *)
C14_SlugWellFormed ==
    \A i \in Ids(teams) :
        LiveTeam(i) =>
            /\ Len(teams[i].slug) >= MinSlugLen
            /\ Len(teams[i].slug) <= MaxSlugLen
            /\ SlugPatternOk(teams[i].slug)

(* the two ways C14 fails: a rename to a slug of two characters, and a *)
(* create whose suffixed slug has more than 63 characters              *)
C14_NoShortSlug ==
    \A i \in Ids(teams) : LiveTeam(i) => Len(teams[i].slug) >= MinSlugLen

C14_NoLongSlug ==
    \A i \in Ids(teams) : LiveTeam(i) => Len(teams[i].slug) <= MaxSlugLen

(* caller p starts the call op in this step *)
Starts(p, op) ==
    /\ procs[p].pc \in {"idle", "done"}
    /\ procs'[p] # procs[p] /\ procs'[p].op = op

(* the outcome C15 states for the DeleteOIDCClientConfig call of caller p *)
DeleteOutcome(p) ==
    LET c == procs'[p]
        id == c.cfgId
        scoped == /\ id \in DOMAIN configs /\ ~configs[id].deleted
                  /\ configs[id].organizationId = c.teamId
    IN IF scoped
       THEN /\ c.res = "ok"
            /\ configs' = [configs EXCEPT ![id].deleted = TRUE]
       ELSE /\ configs' = configs
            /\ c.res = IF id = NilUuid \/ c.teamId = NoId THEN "required_argument"
                       ELSE "ErrorNotFound"

(* a soft-deleted config stays soft-deleted *)
DeletedStays ==
    \A id \in DOMAIN configs : configs[id].deleted => configs'[id].deleted

(* C15: cross-tenant deletion is prevented.  DeleteOIDCClientConfig(id,     *)
(* organizationId) soft-deletes the config iff a non-deleted config with    *)
(* that id belongs to that organization; otherwise it fails, with           *)
(* ErrorNotFound for non-nil arguments, and no config row changes.  A       *)
(* soft-deleted config is never live again, so a second delete of the same  *)
(* pair fails with ErrorNotFound.                                           *)
C15_DeleteScoped ==
    /\ [][\A p \in Callers : Starts(p, "DeleteOIDCClientConfig") => DeleteOutcome(p)]_vars
    /\ [][DeletedStays]_vars

(* C15 happens: a delete under the wrong organization failed with        *)
(* ErrorNotFound, and after a delete under the right one a second delete *)
(* of the same pair failed with ErrorNotFound                            *)
C15_Witness ==
    \E p, q \in Callers :
        /\ Done(procs[p], "DeleteOIDCClientConfig") /\ procs[p].res = "ErrorNotFound"
        /\ procs[p].cfgId \in DOMAIN configs
        /\ configs[procs[p].cfgId].organizationId # procs[p].teamId
        /\ Done(procs[q], "DeleteOIDCClientConfig") /\ procs[q].res = "ErrorNotFound"
        /\ procs[q].cfgId \in DOMAIN configs /\ configs[procs[q].cfgId].deleted
        /\ configs[procs[q].cfgId].organizationId = procs[q].teamId

(* the outcome C16 states for the CreateOIDCClientConfig call of caller p *)
CreateOutcome(p) ==
    LET c == procs'[p]
        cfg == c.rowCopy
    IN IF cfg.id = NilUuid \/ cfg.issuer = ""
       THEN c.res = "required_argument" /\ configs' = configs
       ELSE c.res = "ok" =>
               /\ cfg.id \in DOMAIN configs' /\ cfg.id \notin DOMAIN configs
               /\ ~configs'[cfg.id].active

(* C16: CreateOIDCClientConfig stores every config it accepts with active  *)
(* false, whatever the active field of the input; with a nil id or an      *)
(* empty issuer it fails and stores nothing.                               *)
C16_CreateInactive ==
    [][\A p \in Callers : Starts(p, "CreateOIDCClientConfig") => CreateOutcome(p)]_vars

(* the outcome C17 states for the steps of ActivateClientConfig *)
ActivateOutcome(p) ==
    /\ Starts(p, "ActivateClientConfig") =>
          /\ configs' = configs
          /\ IF LiveConfig(configs, procs'[p].cfgId)
             THEN procs'[p].pc = "activate"
             ELSE /\ procs'[p].pc = "done"
                  /\ procs'[p].res = IF procs'[p].cfgId = NilUuid THEN "required_argument"
                                     ELSE "ErrorNotFound"
    /\ (procs[p].op = "ActivateClientConfig" /\ procs[p].pc = "activate"
        /\ procs'[p].pc = "done") =>
          /\ procs'[p].res = "ok"
          /\ DOMAIN configs' = DOMAIN configs
          /\ configs'[procs[p].cfgId].active
          /\ \A id \in DOMAIN configs :
                /\ id # procs[p].cfgId => configs'[id] = configs[id]
                /\ configs'[id].organizationId = configs[id].organizationId
                /\ configs'[id].issuer = configs[id].issuer
                /\ configs'[id].deleted = configs[id].deleted

(* C17: ActivateClientConfig(id).  When a non-deleted config with that id  *)
(* exists, the call sets active on that config and leaves every other      *)
(* config, and every other column, unchanged; when none exists it fails    *)
(* (ErrorNotFound for a non-nil id) and no config changes.                 *)
C17_ActivateFrame ==
    [][\A p \in Callers : ActivateOutcome(p)]_vars

(* C17 happens: an activation succeeded on one config while another config *)
(* is stored inactive, and an activation of an id without live config      *)
(* failed with ErrorNotFound                                               *)
C17_Witness ==
    \E p, q \in Callers :
        /\ Done(procs[p], "ActivateClientConfig") /\ procs[p].res = "ok"
        /\ configs[procs[p].cfgId].active
        /\ \E id \in DOMAIN configs : id # procs[p].cfgId /\ ~configs[id].active
        /\ Done(procs[q], "ActivateClientConfig") /\ procs[q].res = "ErrorNotFound"

(* the activation of a soft-deleted config is refused as well *)
C17_DeletedRefused ==
    \E q \in Callers :
        /\ Done(procs[q], "ActivateClientConfig") /\ procs[q].res = "ErrorNotFound"
        /\ procs[q].cfgId \in DOMAIN configs /\ configs[procs[q].cfgId].deleted

(* call k is a deleteTeam that found the organization, and no call has been *)
(* made since it returned                                                   *)
JustDeleted(k) ==
    /\ Done(procs[k], "deleteTeam") /\ procs[k].rowId # NoId
    /\ calls = k

(* C18: deleteTeam is a full compound operation.  When a deleteTeam call    *)
(* that found the organization has returned, the organization is            *)
(* soft-deleted and findOrgSettings returns no settings row for it.         *)
C18_DeleteCompound ==
    \A k \in DOMAIN procs :
        JustDeleted(k) =>
            /\ teams[procs[k].teamId].markedDeleted
            /\ FindOrgSettings(orgSettings, procs[k].teamId) = {}

(* the steps of a deleteTeam call change no membership, invite or config row *)
DeleteTeamFrame ==
    \A p \in DOMAIN procs :
        (procs'[p] # procs[p] /\ procs'[p].op = "deleteTeam") =>
            /\ memberships' = memberships
            /\ invites' = invites
            /\ configs' = configs

(* after deleteTeam the listings scoped to the organization return none of *)
(* its rows                                                                *)
DeletedUnlisted ==
    \A k \in DOMAIN procs :
        JustDeleted(k) =>
            /\ FindMembersByTeam(memberships, procs[k].teamId) = {{}}
            /\ \A u \in Users : procs[k].teamId \notin FindTeamsByUser(teams, memberships, u)
            /\ ListOIDCClientConfigsForOrganization(configs, procs[k].teamId) = {}

(* C19: deleteTeam leaves dependent rows untouched but unreachable by       *)
(* organization-scoped listing: it changes no membership, invite or OIDC    *)
(* config row, and after it findMembersByTeam, findTeamsByUser and          *)
(* ListOIDCClientConfigsForOrganization no longer return rows of the        *)
(* organization.                                                            *)
C19_OrphanedUnlisted == [][DeleteTeamFrame]_vars /\ []DeletedUnlisted

(* the parts of C19 that hold: the frame, and findTeamsByUser *)
C19_Frame == [][DeleteTeamFrame]_vars

C19_ByUser ==
    \A k \in DOMAIN procs :
        JustDeleted(k) =>
            \A u \in Users : procs[k].teamId \notin FindTeamsByUser(teams, memberships, u)

(* the setOrgSettings calls on organization o that have returned *)
SetsOf(o) ==
    {k \in DOMAIN procs : Done(procs[k], "setOrgSettings") /\ procs[k].teamId = o}

(* after a setOrgSettings call the organization has exactly one live row *)
OneLiveSettingsRow ==
    \A o \in SettingsOrgs :
        SetsOf(o) # {} => Cardinality(LiveSettings(orgSettings, o)) = 1

(* a row is inserted only by a call that found no live row, for its      *)
(* organization, with the value of the input; the stored rows are not    *)
(* changed by it                                                         *)
InsertsWhenNone ==
    Len(orgSettings') # Len(orgSettings) =>
        \E p \in DOMAIN procs :
            /\ procs[p].op = "setOrgSettings" /\ procs[p].pc = "insertSettings"
            /\ Done(procs'[p], "setOrgSettings")
            /\ LiveSettings(orgSettings, procs[p].teamId) = {}
            /\ Len(orgSettings') = Len(orgSettings) + 1
            /\ \A i \in Ids(orgSettings) : orgSettings'[i] = orgSettings[i]
            /\ LET row == orgSettings'[Len(orgSettings')]
                   wsd == procs[p].rowCopy.workspaceSharingDisabled
               IN /\ row.orgId = procs[p].teamId /\ ~row.deleted
                  /\ wsd # Omitted => row.workspaceSharingDisabled = wsd

(* a call that finds a live row inserts nothing and issues a save of that *)
(* row with the input's value                                             *)
UpdatesWhenFound ==
    \A p \in DOMAIN procs :
        (Starts(p, "setOrgSettings") /\ LiveSettings(orgSettings, procs'[p].teamId) # {}) =>
            /\ orgSettings' = orgSettings
            /\ Done(procs'[p], "setOrgSettings")
            /\ procs'[p].rowId \in LiveSettings(orgSettings, procs'[p].teamId)
            /\ \E s \in pendingSaves' :
                  /\ s.rowId = procs'[p].rowId
                  /\ s.row.workspaceSharingDisabled = procs'[p].rowCopy.workspaceSharingDisabled

(* a stored row changes only when a save of it is applied, and only in      *)
(* workspaceSharingDisabled, to the value the input supplied: the save of a *)
(* call that omitted the field leaves the row as it is                      *)
PartialUpdate ==
    \A i \in Ids(orgSettings) :
        orgSettings'[i] # orgSettings[i] =>
            \E s \in pendingSaves \ pendingSaves' :
                /\ s.rowId = i
                /\ s.row.workspaceSharingDisabled # Omitted
                /\ orgSettings'[i] =
                      [orgSettings[i] EXCEPT !.workspaceSharingDisabled = s.row.workspaceSharingDisabled]

(* C20: setOrgSettings is an upsert with partial-update semantics.  It      *)
(* inserts a row if the organization has no live row, otherwise it saves    *)
(* the existing row; a save with workspaceSharingDisabled omitted leaves    *)
(* the stored value; after a call the organization has exactly one live     *)
(* settings row.                                                            *)
C20_Upsert ==
    /\ []OneLiveSettingsRow
    /\ [][InsertsWhenNone /\ UpdatesWhenFound /\ PartialUpdate]_vars

(* C20 happens: a row was inserted with "true", a later call found it and  *)
(* omitted the field, its save has been applied and the row holds "true";  *)
(* a call that supplied "false" for another organization's row was applied *)
C20_Witness ==
    /\ pendingSaves = {} /\ Quiet
    /\ \E j, k \in DOMAIN procs :
          /\ j < k
          /\ Done(procs[j], "setOrgSettings") /\ ~procs[j].pre
          /\ procs[j].rowCopy.workspaceSharingDisabled = "true"
          /\ Done(procs[k], "setOrgSettings") /\ procs[k].pre
          /\ procs[k].rowCopy.workspaceSharingDisabled = Omitted
          /\ procs[k].rowId = procs[j].rowId
          /\ orgSettings[procs[k].rowId].workspaceSharingDisabled = "true"
    /\ \E k \in DOMAIN procs :
          /\ Done(procs[k], "setOrgSettings") /\ procs[k].pre
          /\ procs[k].rowCopy.workspaceSharingDisabled = "false"
          /\ orgSettings[procs[k].rowId].workspaceSharingDisabled = "false"

(* C21: no half-applied invite reset.  An organization that had a valid    *)
(* generic invite when a resetGenericInvite call started has a valid       *)
(* generic invite once that call has ended, whether it returned or failed. *)
C21_NoHalfReset ==
    \A k \in DOMAIN procs :
        (Done(procs[k], "resetGenericInvite") /\ procs[k].pre /\ calls = k) =>
            GenericInvites(invites, procs[k].teamId) # {}

(* the outcome C22 states for the updateTeam call that caller p makes in *)
(* this step                                                             *)
RenameNoOp(p) ==
    LET c == procs'[p]
        t == c.teamId
        name == Trim(c.name)
        slug == Trim(c.slug)
    IN /\ (name = "" /\ slug = "") =>
              c.res = "BAD_REQUEST" /\ teams' = teams
       /\ (/\ LiveTeam(t)
           /\ name # "" \/ slug # ""
           /\ name = "" \/ name = teams[t].name
           /\ slug = "" \/ slug = teams[t].slug) =>
              /\ c.res = "ok"
              /\ c.rowCopy = teams[t]
              /\ teams' = teams

(* C22: updateTeam is a no-op when nothing differs.  For a live            *)
(* organization, a call with only the current name, only the current slug, *)
(* or both, returns the stored row and changes nothing, without error; a   *)
(* call with neither name nor slug fails with BAD_REQUEST.                 *)
C22_RenameNoOp ==
    [][\A p \in Callers : Starts(p, "updateTeam") => RenameNoOp(p)]_vars

(* the same for organizations whose name has at most 32 characters *)
C22_ShortNames ==
    [][\A p \in Callers :
          (Starts(p, "updateTeam") /\ Len(Trim(procs'[p].name)) <= MaxUpdateNameLen)
          => RenameNoOp(p)]_vars

(* C23: the owner-floor check of setTeamMemberRole applies to demotions of *)
(* owners only.  For a target with a live membership, the call fails with  *)
(* CONFLICT only when the requested role is member and the target is the   *)
(* only live owner of the organization: never for role owner, and never    *)
(* for a target that is a plain member.                                    *)
C23_FloorForOwnersOnly ==
    \A k \in DOMAIN procs :
        (/\ Done(procs[k], "setTeamMemberRole") /\ ~procs[k].pre
         /\ procs[k].res = "CONFLICT")
        => /\ procs[k].role = "member"
           /\ procs[k].owners0 = {procs[k].userId}

(* the part of C23 that holds: role owner never fails with CONFLICT *)
C23_PromotionNoConflict ==
    \A k \in DOMAIN procs :
        (Done(procs[k], "setTeamMemberRole") /\ procs[k].role = "owner")
        => procs[k].res # "CONFLICT"

(* the non-deleted organizations in which u has a live owner membership and *)
(* no other live membership has role owner                                  *)
SoleOwned(u) ==
    {t \in Ids(teams) :
        /\ LiveTeam(t)
        /\ \E i \in Ids(memberships) :
              /\ memberships[i].teamId = t /\ memberships[i].userId = u
              /\ memberships[i].role = "owner" /\ ~memberships[i].deleted
        /\ \A i \in Ids(memberships) :
              (/\ memberships[i].teamId = t /\ memberships[i].role = "owner"
               /\ ~memberships[i].deleted) => memberships[i].userId = u}

(* C24: findTeamsByUserAsSoleOwner(userId) returns exactly the non-deleted  *)
(* organizations in which the user has a live owner membership and nobody   *)
(* else does: none where the user is a plain member, where a second live    *)
(* owner exists, or which is soft-deleted.                                  *)
C24_SoleOwned ==
    \A u \in Users :
        FindTeamsByUserAsSoleOwner(teams, memberships, u) = {SoleOwned(u)}

(* the slugs a lookup is made with: those of the team rows, and none *)
LookupSlugs == {teams[t].slug : t \in Ids(teams)} \cup {""}

(* C25: GetOIDCClientConfigByOrgSlug(slug) only ever returns a non-deleted *)
(* config whose organizationId is the non-deleted organization holding the *)
(* slug; for a slug held only by soft-deleted organizations, or taken over *)
(* by a later organization, it returns no config of the soft-deleted one.  *)
C25_SlugLookup ==
    \A slug \in LookupSlugs :
        \A id \in GetOIDCClientConfigByOrgSlug(configs, teams, slug) \cap DOMAIN configs :
            /\ ~configs[id].deleted
            /\ LiveTeam(configs[id].organizationId)
            /\ teams[configs[id].organizationId].slug = slug

(* the part of C25 that holds: a returned config is not deleted and belongs *)
(* to a team row with the slug                                              *)
C25_LiveConfigOfSlug ==
    \A slug \in LookupSlugs :
        \A id \in GetOIDCClientConfigByOrgSlug(configs, teams, slug) \cap DOMAIN configs :
            /\ ~configs[id].deleted
            /\ configs[id].organizationId \in Ids(teams)
            /\ teams[configs[id].organizationId].slug = slug

(* C25 without the takeover: a returned config never belongs to a      *)
(* soft-deleted organization while a live organization holds the slug  *)
C25_NoTakeover ==
    \A slug \in LookupSlugs :
        \A id \in GetOIDCClientConfigByOrgSlug(configs, teams, slug) \cap DOMAIN configs :
            (\E t \in Ids(teams) : LiveTeam(t) /\ teams[t].slug = slug)
            => LiveTeam(configs[id].organizationId)

(* a step leaves the active flag of every soft-deleted config as it was *)
DeletedFrozen ==
    \A id \in DOMAIN configs :
        configs[id].deleted => configs'[id].active = configs[id].active

(* C26: under every interleaving of ActivateClientConfig(id) with           *)
(* DeleteOIDCClientConfig(id, organizationId), no step changes the active   *)
(* flag of a config whose deleted flag is already set: an activation never  *)
(* writes to a soft-deleted row.                                            *)
C26_DeletedFrozen == [][DeletedFrozen]_vars

(* the part of C26 that holds: the lookup of ActivateClientConfig refuses a *)
(* config that is soft-deleted when the call starts                         *)
C26_RefusedAtLookup ==
    [][\A p \in Callers :
          (/\ Starts(p, "ActivateClientConfig")
           /\ procs'[p].cfgId \in DOMAIN configs
           /\ configs[procs'[p].cfgId].deleted)
          => procs'[p].res = "ErrorNotFound" /\ configs' = configs]_vars

=============================================================================
